---- MODULE Spec2Model ----
(***************************************************************************)
(* Model of src/main.rs: a tokio TCP listener on 127.0.0.1:8181 that       *)
(* spawns one task per accepted connection; each task formats a fixed HTTP *)
(* response, calls write once and flush once on its stream, and returns.   *)
(*                                                                         *)
(* Byte strings are sequences of byte values (ASCII codes).                *)
(***************************************************************************)
EXTENDS Integers, Sequences, FiniteSets, TLC

(* ---- bounds of the model ---- *)

\* Number of connections the listener accepts before the model stops accepting.
MaxConn == 2

\* A short write accepts 1..MaxShort bytes of the buffer (a complete write
\* accepts all of it).
MaxShort == 1

(* ---- byte strings of the source ---- *)

\* "{\"balance\": 0.00}"   (main.rs:17)
contents ==
  <<123, 34, 98, 97, 108, 97, 110, 99, 101, 34, 58, 32, 48, 46, 48, 48, 125>>

\* format string up to the first {}:
\* "HTTP/1.1 200 OK\r\nContent-Type: application/json\r\nContent-Length: "
FmtHead ==
  <<72, 84, 84, 80, 47, 49, 46, 49, 32, 50, 48, 48, 32, 79, 75, 13, 10,
    67, 111, 110, 116, 101, 110, 116, 45, 84, 121, 112, 101, 58, 32,
    97, 112, 112, 108, 105, 99, 97, 116, 105, 111, 110, 47, 106, 115, 111, 110,
    13, 10,
    67, 111, 110, 116, 101, 110, 116, 45, 76, 101, 110, 103, 116, 104, 58, 32>>

\* format string between the two {}: "\r\n\r\n"
FmtMid == <<13, 10, 13, 10>>

\* Display of a usize: its decimal digits, most significant first, no padding.
RECURSIVE ToDecimal(_)
ToDecimal(n) ==
  IF n < 10 THEN <<48 + n>>
  ELSE ToDecimal(n \div 10) \o <<48 + (n % 10)>>

\* A slip: the length is taken one too large.
StrLenOffByOne(s) == Len(s) + 1

\* str::len(): the number of bytes of the string.
StrLen(s) == Len(s)

\* A plausible slip in format!: the length argument and the body swapped.
FormatSwapped(c) == FmtHead \o c \o FmtMid \o ToDecimal(StrLen(c))

\* format!("HTTP/1.1 200 OK\r\n...Content-Length: {}\r\n\r\n{}", c.len(), c)
Format(c) == FmtHead \o ToDecimal(StrLen(c)) \o FmtMid \o c

(* ---- what clients send (never read by the server) ---- *)

\* "GET / HTTP/1.1\r\n\r\n"
GetRequest ==
  <<71, 69, 84, 32, 47, 32, 72, 84, 84, 80, 47, 49, 46, 49, 13, 10, 13, 10>>

\* A client that sends nothing, and one that sends a request.
ClientInputs == { <<>>, GetRequest }

(* ---- state ---- *)

VARIABLES
  lpc,      \* position of main: "bind", "accept", "spawn", "panicked", "exited"
  lerr,     \* the error main panicked on: "none", "BindError", "AcceptError"
  stream,   \* main's local `stream`: a connection id, or 0 when it holds none
  conn,     \* conn[c]: "none" (not yet accepted), "open", "closed"
  req,      \* req[c]: the bytes the client of c sent
  wire,     \* wire[c]: the bytes the server transmitted on c
  tasks     \* the spawned tasks, in spawn order

vars == <<lpc, lerr, stream, conn, req, wire, tasks>>

Conns == 1..MaxConn

\* A task as spawned: it owns `stream`, has not been polled.
\*   st       : "Accepted", "Writing", "Flushed", "Failed", "Closed", "Aborted"
\*   response : the local `response` (empty until formatted)
\*   wcalls   : number of write calls made
\*   fcalls   : number of flush calls made
\*   wret     : what write returned: -1 nothing yet, -2 Err, n >= 0 for Ok(n)
\*   fret     : what flush returned: "none", "Ok", "Err"
NewTask(s) ==
  [stream |-> s, st |-> "Accepted", response |-> <<>>,
   wcalls |-> 0, fcalls |-> 0, wret |-> -1, fret |-> "none"]

Tasks == 1..Len(tasks)

\* The process still exists (worker threads may still poll tasks).
Alive == lpc /= "exited"

NextConn == Cardinality({c \in Conns : conn[c] /= "none"}) + 1

Init ==
  /\ lpc = "bind"
  /\ lerr = "none"
  /\ stream = 0
  /\ conn = [c \in Conns |-> "none"]
  /\ req = [c \in Conns |-> <<>>]
  /\ wire = [c \in Conns |-> <<>>]
  /\ tasks = <<>>

(* ---- main: the listener ---- *)

\* TcpListener::bind("127.0.0.1:8181").await returns Ok: unwrap yields the listener.
BindOk ==
  /\ lpc = "bind"
  /\ lpc' = "accept"
  /\ UNCHANGED <<lerr, stream, conn, req, wire, tasks>>

\* A slip: the bind error is ignored and main goes on to the accept loop.
BindFailContinue ==
  /\ lpc = "bind"
  /\ lpc' = "accept"
  /\ lerr' = "BindError"
  /\ UNCHANGED <<stream, conn, req, wire, tasks>>

\* bind returns Err: unwrap panics in main.
BindFail ==
  /\ lpc = "bind"
  /\ lpc' = "panicked"
  /\ lerr' = "BindError"
  /\ UNCHANGED <<stream, conn, req, wire, tasks>>

\* A slip: the handler is awaited in the loop instead of being spawned, so
\* accept is not reached again until every earlier handler has finished.
AcceptOkAfterJoin(inp) ==
  /\ lpc = "accept"
  /\ NextConn <= MaxConn
  /\ \A i \in Tasks : tasks[i].st = "Closed"
  /\ stream' = NextConn
  /\ conn' = [conn EXCEPT ![NextConn] = "open"]
  /\ req' = [req EXCEPT ![NextConn] = inp]
  /\ lpc' = "spawn"
  /\ UNCHANGED <<lerr, wire, tasks>>

\* listener.accept().await returns Ok((stream, _)): a client that sent `inp`
\* (possibly nothing) is connected; main now holds the new stream.
AcceptOk(inp) ==
  /\ lpc = "accept"
  /\ NextConn <= MaxConn
  /\ stream' = NextConn
  /\ conn' = [conn EXCEPT ![NextConn] = "open"]
  /\ req' = [req EXCEPT ![NextConn] = inp]
  /\ lpc' = "spawn"
  /\ UNCHANGED <<lerr, wire, tasks>>

\* A slip: the accept error is recorded and the loop continues.
AcceptFailRetry ==
  /\ lpc = "accept"
  /\ lerr' = "AcceptError"
  /\ UNCHANGED <<lpc, stream, conn, req, wire, tasks>>

\* accept returns Err: unwrap panics in main.
AcceptFail ==
  /\ lpc = "accept"
  /\ lpc' = "panicked"
  /\ lerr' = "AcceptError"
  /\ UNCHANGED <<stream, conn, req, wire, tasks>>

\* A slip: the task is given the stream but main keeps using it too.
SpawnShared ==
  /\ lpc = "spawn"
  /\ tasks' = Append(tasks, NewTask(stream))
  /\ lpc' = "accept"
  /\ UNCHANGED <<lerr, stream, conn, req, wire>>

\* tokio::spawn(async move { handle_connection(stream).await; }): the stream
\* moves into the new task, the JoinHandle is dropped, the loop goes round.
Spawn ==
  /\ lpc = "spawn"
  /\ tasks' = Append(tasks, NewTask(stream))
  /\ stream' = 0
  /\ lpc' = "accept"
  /\ UNCHANGED <<lerr, conn, req, wire>>

\* A slip: main's panic ends main only; the spawned tasks are left as they are.
ExitLeavesTasks ==
  /\ lpc = "panicked"
  /\ lpc' = "exited"
  /\ UNCHANGED <<lerr, stream, conn, req, wire, tasks>>

\* The panic leaves main: the runtime is dropped, every unfinished task is
\* dropped with it, the process exits and the OS closes every socket.
Exit ==
  /\ lpc = "panicked"
  /\ lpc' = "exited"
  /\ tasks' = [i \in Tasks |->
                 IF tasks[i].st = "Closed" THEN tasks[i]
                 ELSE [tasks[i] EXCEPT !.st = "Aborted"]]
  /\ conn' = [c \in Conns |-> IF conn[c] = "open" THEN "closed" ELSE conn[c]]
  /\ UNCHANGED <<lerr, stream, req, wire>>

(* ---- handle_connection: one spawned task ---- *)

\* The byte counts a successful write may report for a buffer of len bytes:
\* all of it, or a short count (AsyncWriteExt::write returns Ok(n), n <= len).
WriteCounts(len) == {n \in 1..len : n <= MaxShort \/ n = len}

\* First poll: contents and response are built, write is called.
HandlerStart(i) ==
  /\ Alive
  /\ i \in Tasks
  /\ tasks[i].st = "Accepted"
  /\ tasks' = [tasks EXCEPT ![i].response = Format(contents),
                            ![i].wcalls = @ + 1,
                            ![i].st = "Writing"]
  /\ UNCHANGED <<lpc, lerr, stream, conn, req, wire>>

\* write returns Ok(n): the first n bytes of the buffer went out; the count is
\* discarded by unwrap() and flush is called.
WriteOk(i, n) ==
  /\ Alive
  /\ i \in Tasks
  /\ tasks[i].st = "Writing"
  /\ n \in WriteCounts(Len(tasks[i].response))
  /\ wire' = [wire EXCEPT ![tasks[i].stream] = @ \o SubSeq(tasks[i].response, 1, n)]
  /\ tasks' = [tasks EXCEPT ![i].wret = n,
                            ![i].fcalls = @ + 1,
                            ![i].st = "Flushed"]
  /\ UNCHANGED <<lpc, lerr, stream, conn, req>>

\* A slip: on a write error an error payload ("HTTP/1.1 500") is sent instead.
WriteErrPayload(i) ==
  /\ Alive
  /\ i \in Tasks
  /\ tasks[i].st = "Writing"
  /\ tasks' = [tasks EXCEPT ![i].wret = -2, ![i].st = "Failed"]
  /\ wire' = [wire EXCEPT ![tasks[i].stream] =
                 @ \o <<72, 84, 84, 80, 47, 49, 46, 49, 32, 53, 48, 48>>]
  /\ UNCHANGED <<lpc, lerr, stream, conn, req>>

\* A slip: the write error is dropped (no unwrap) and flush is called anyway.
WriteErrIgnored(i) ==
  /\ Alive
  /\ i \in Tasks
  /\ tasks[i].st = "Writing"
  /\ tasks' = [tasks EXCEPT ![i].wret = -2,
                            ![i].fcalls = @ + 1,
                            ![i].st = "Flushed"]
  /\ UNCHANGED <<lpc, lerr, stream, conn, req, wire>>

\* A slip: the write error is unwrapped in main's own task, so main panics.
WriteErrInMain(i) ==
  /\ Alive
  /\ i \in Tasks
  /\ tasks[i].st = "Writing"
  /\ tasks' = [tasks EXCEPT ![i].wret = -2, ![i].st = "Failed"]
  /\ lpc' = "panicked"
  /\ UNCHANGED <<lerr, stream, conn, req, wire>>

\* write returns Err (peer reset, broken pipe, ...): unwrap panics in the task.
WriteErr(i) ==
  /\ Alive
  /\ i \in Tasks
  /\ tasks[i].st = "Writing"
  /\ tasks' = [tasks EXCEPT ![i].wret = -2, ![i].st = "Failed"]
  /\ UNCHANGED <<lpc, lerr, stream, conn, req, wire>>

\* A slip: handlers are joined in spawn order, so a handler finishes only
\* after every handler spawned before it.
FlushOkInOrder(i) ==
  /\ Alive
  /\ i \in Tasks
  /\ tasks[i].st = "Flushed"
  /\ \A j \in 1..(i - 1) : tasks[j].st = "Closed"
  /\ tasks' = [tasks EXCEPT ![i].fret = "Ok", ![i].st = "Closed"]
  /\ conn' = [conn EXCEPT ![tasks[i].stream] = "closed"]
  /\ UNCHANGED <<lpc, lerr, stream, req, wire>>

\* flush returns Ok: handle_connection returns, the stream goes out of scope
\* and is closed.
FlushOk(i) ==
  /\ Alive
  /\ i \in Tasks
  /\ tasks[i].st = "Flushed"
  /\ tasks' = [tasks EXCEPT ![i].fret = "Ok", ![i].st = "Closed"]
  /\ conn' = [conn EXCEPT ![tasks[i].stream] = "closed"]
  /\ UNCHANGED <<lpc, lerr, stream, req, wire>>

\* A slip: on a flush error the handler goes back and writes again.
FlushErrRetry(i) ==
  /\ Alive
  /\ i \in Tasks
  /\ tasks[i].st = "Flushed"
  /\ tasks' = [tasks EXCEPT ![i].fret = "Err", ![i].st = "Writing"]
  /\ UNCHANGED <<lpc, lerr, stream, conn, req, wire>>

\* flush returns Err: unwrap panics in the task.
FlushErr(i) ==
  /\ Alive
  /\ i \in Tasks
  /\ tasks[i].st = "Flushed"
  /\ tasks' = [tasks EXCEPT ![i].fret = "Err", ![i].st = "Failed"]
  /\ UNCHANGED <<lpc, lerr, stream, conn, req, wire>>

\* A slip: the stream is leaked (never dropped) when the task panics.
UnwindLeak(i) ==
  /\ Alive
  /\ i \in Tasks
  /\ tasks[i].st = "Failed"
  /\ tasks' = [tasks EXCEPT ![i].st = "Closed"]
  /\ UNCHANGED <<lpc, lerr, stream, conn, req, wire>>

\* The panic unwinds handle_connection: the stream is dropped and closed; the
\* runtime catches the panic at the task boundary.
Unwind(i) ==
  /\ Alive
  /\ i \in Tasks
  /\ tasks[i].st = "Failed"
  /\ tasks' = [tasks EXCEPT ![i].st = "Closed"]
  /\ conn' = [conn EXCEPT ![tasks[i].stream] = "closed"]
  /\ UNCHANGED <<lpc, lerr, stream, req, wire>>

(* ---- specifications ---- *)

Next ==
  \/ BindOk
  \/ BindFail
  \/ \E inp \in ClientInputs : AcceptOk(inp)
  \/ AcceptFail
  \/ Spawn
  \/ Exit
  \/ \E i \in Conns : HandlerStart(i)
  \/ \E i \in Conns : \E n \in 1..Len(Format(contents)) : WriteOk(i, n)
  \/ \E i \in Conns : WriteErr(i)
  \/ \E i \in Conns : FlushOk(i)
  \/ \E i \in Conns : FlushErr(i)
  \/ \E i \in Conns : Unwind(i)

Spec == Init /\ [][Next]_vars

\* The unwinding of a panicked task runs to its end in the poll that panicked.
FairSpec == Spec /\ \A i \in Conns : WF_vars(Unwind(i))

(* ---- the response as an HTTP client reads it ---- *)

CRLF == <<13, 10>>

\* "HTTP/1.1 200 OK"
StatusLine == <<72, 84, 84, 80, 47, 49, 46, 49, 32, 50, 48, 48, 32, 79, 75>>

\* "Content-Type: application/json"
ContentTypeHeader ==
  <<67, 111, 110, 116, 101, 110, 116, 45, 84, 121, 112, 101, 58, 32,
    97, 112, 112, 108, 105, 99, 97, 116, 105, 111, 110, 47, 106, 115, 111, 110>>

\* "Content-Length: "
ContentLengthName ==
  <<67, 111, 110, 116, 101, 110, 116, 45, 76, 101, 110, 103, 116, 104, 58, 32>>

\* {"balance": 0.00}
BalanceLiteral ==
  <<123, 34, 98, 97, 108, 97, 110, 99, 101, 34, 58, 32, 48, 46, 48, 48, 125>>

IsNumeral(d) ==
  /\ Len(d) >= 1
  /\ \A k \in 1..Len(d) : d[k] \in 48..57
  /\ (Len(d) > 1 => d[1] /= 48)

RECURSIVE NumeralValue(_)
NumeralValue(d) ==
  IF Len(d) = 0 THEN 0
  ELSE 10 * NumeralValue(SubSeq(d, 1, Len(d) - 1)) + (d[Len(d)] - 48)

\* Index of the first byte of the first empty line (CRLF CRLF) of w, 0 if none.
HeaderEnd(w) ==
  LET hits == {k \in 1..(Len(w) - 3) : SubSeq(w, k, k + 3) = CRLF \o CRLF}
  IN IF hits = {} THEN 0 ELSE CHOOSE k \in hits : \A m \in hits : k <= m

\* The bytes after the empty line.
WireBody(w) == SubSeq(w, HeaderEnd(w) + 4, Len(w))

\* The value bytes of the Content-Length header line of w's header block
\* (<<>> when the block has no such line).
WireContentLength(w) ==
  LET n    == Len(ContentLengthName)
      hits == {k \in 1..(HeaderEnd(w) - n) :
                 /\ SubSeq(w, k, k + n - 1) = ContentLengthName
                 /\ k > 2
                 /\ SubSeq(w, k - 2, k - 1) = CRLF}
  IN IF hits = {} THEN <<>>
     ELSE LET k == CHOOSE h \in hits : TRUE
              e == CHOOSE q \in (k + n)..HeaderEnd(w) :
                     /\ w[q] = 13
                     /\ \A m \in (k + n)..(q - 1) : w[m] /= 13
          IN SubSeq(w, k + n, e - 1)

\* Task i ran write and flush and both returned Ok.
Succeeded(i) == i \in Tasks /\ tasks[i].wret >= 0 /\ tasks[i].fret = "Ok"

\* Task i panicked on a write or flush error.
Panicked(i) == i \in Tasks /\ (tasks[i].wret = -2 \/ tasks[i].fret = "Err")

(* ---- claims ---- *)

\* C1: when a handler's write or flush fails, only that handler's task ends:
\* the step that fails it, and the step that unwinds it, leave main, every
\* other task and every other connection as they were; and with a failed
\* handler present, main can still accept and every other live handler can
\* still complete its write and its flush.
C1_Isolation ==
  /\ [][\A i \in Tasks :
          (  (tasks[i].st \in {"Writing", "Flushed"} /\ tasks'[i].st = "Failed")
          \/ (tasks[i].st = "Failed" /\ tasks'[i].st = "Closed"))
          => /\ lpc' = lpc /\ lerr' = lerr /\ stream' = stream
             /\ Len(tasks') = Len(tasks)
             /\ \A j \in Tasks \ {i} : tasks'[j] = tasks[j]
             /\ \A c \in Conns \ {tasks[i].stream} :
                  conn'[c] = conn[c] /\ wire'[c] = wire[c]]_vars
  /\ []((\E i \in Tasks : Panicked(i)) =>
          /\ (lpc = "accept" /\ NextConn <= MaxConn
                => ENABLED (\E inp \in ClientInputs : AcceptOk(inp)))
          /\ (lpc = "spawn" => ENABLED Spawn)
          /\ \A j \in Tasks :
               /\ (Alive /\ tasks[j].st = "Accepted" => ENABLED HandlerStart(j))
               /\ (Alive /\ tasks[j].st = "Writing"
                     => ENABLED WriteOk(j, Len(tasks[j].response)))
               /\ (Alive /\ tasks[j].st = "Flushed" => ENABLED FlushOk(j)))

\* A handler failed on write, and a connection accepted after it was still
\* served in full while main is back at accept.
C1_Witness ==
  \E i, j \in Tasks :
    /\ i < j
    /\ tasks[i].wret = -2 /\ tasks[i].st = "Closed"
    /\ Succeeded(j) /\ wire[tasks[j].stream] = tasks[j].response
    /\ lpc = "accept"

\* C2: for every handler whose write and flush both returned Ok, the bytes
\* transmitted on its connection are the entire response.
C2_FullResponse ==
  \A i \in Tasks : Succeeded(i) => wire[tasks[i].stream] = tasks[i].response

\* C3: every accepted connection has exactly one owner, main before the
\* dispatch and exactly one handler task after it, never both and never two
\* tasks; no task calls write on its connection more than once.
C3_OneHandler ==
  /\ \A c \in Conns :
       LET owners == (IF stream = c THEN 1 ELSE 0)
                     + Cardinality({i \in Tasks : tasks[i].stream = c})
       IN IF conn[c] = "none" THEN owners = 0 ELSE owners = 1
  /\ \A i \in Tasks : tasks[i].stream \in Conns /\ tasks[i].wcalls <= 1

\* One connection has been handled to the end by its task while main holds
\* the next one, not yet dispatched.
C3_Witness ==
  /\ stream /= 0
  /\ \E i \in Tasks : tasks[i].st = "Closed" /\ tasks[i].wcalls = 1

\* C4: main never waits for a handler: whenever it is at accept (and the
\* model's connection bound is not used up) accept can return, and whenever
\* it holds a fresh stream it can spawn, whatever state the tasks are in.
C4_NeverWaits ==
  /\ (lpc = "accept" /\ NextConn <= MaxConn
        => ENABLED (\E inp \in ClientInputs : AcceptOk(inp)))
  /\ (lpc = "spawn" => ENABLED Spawn)

\* The first handler is still in write while a connection accepted after it
\* has been served, and main is at accept again.
C4_Witness ==
  /\ lpc = "accept"
  /\ Len(tasks) >= 2
  /\ tasks[1].st = "Writing"
  /\ Succeeded(2)

\* C5: the response a handler constructs is the status line, the
\* Content-Type header, a Content-Length header whose value is a decimal
\* numeral equal to the body's byte length, an empty line, and the body
\* {"balance": 0.00}.
C5_ResponseFormat ==
  \A i \in Tasks :
    tasks[i].wcalls > 0 =>
      LET r   == tasks[i].response
          pre == StatusLine \o CRLF \o ContentTypeHeader \o CRLF
                 \o ContentLengthName
      IN \E k \in 1..3 :
           LET digits == SubSeq(r, Len(pre) + 1, Len(pre) + k)
           IN /\ Len(r) >= Len(pre) + k
              /\ IsNumeral(digits)
              /\ NumeralValue(digits) = Len(BalanceLiteral)
              /\ r = pre \o digits \o CRLF \o CRLF \o BalanceLiteral

\* A handler has built its response and called write.
C5_Witness == \E i \in Tasks : tasks[i].wcalls > 0 /\ tasks[i].response /= <<>>

\* C6 as stated: on a connection that carries the header block, the
\* Content-Length value is 18 and the body after it is 18 bytes long.
C6_Length18 ==
  \A c \in Conns :
    HeaderEnd(wire[c]) > 0 =>
      /\ WireContentLength(wire[c]) = <<49, 56>>
      /\ Len(WireBody(wire[c])) = 18

\* C6 amended: on a connection that carries the header block, the
\* Content-Length value is 17; the body after it is never longer than 17
\* bytes and is exactly 17 bytes when write reported the whole buffer written.
C6_Length17 ==
  \A c \in Conns :
    HeaderEnd(wire[c]) > 0 =>
      /\ WireContentLength(wire[c]) = <<49, 55>>
      /\ Len(WireBody(wire[c])) <= 17
      /\ \A i \in Tasks :
           tasks[i].stream = c /\ tasks[i].wret = Len(tasks[i].response)
             => Len(WireBody(wire[c])) = 17

\* A connection was served in full: header block and body are on the wire.
C6_Witness ==
  \E i \in Tasks :
    /\ Succeeded(i)
    /\ tasks[i].wret = Len(tasks[i].response)
    /\ HeaderEnd(wire[tasks[i].stream]) > 0

\* C7: any two connections on which write and flush succeeded carry the same
\* bytes, whatever their clients sent and whatever happened before.
C7_SameBytes ==
  \A i, j \in Tasks :
    Succeeded(i) /\ Succeeded(j) => wire[tasks[i].stream] = wire[tasks[j].stream]

\* C8: an accept failure is fatal: main panics on it and from then on no
\* connection is accepted, no task is spawned and main never leaves the
\* panic.
C8_AcceptFatal ==
  [][/\ (lerr' = "AcceptError" => lpc' \in {"panicked", "exited"})
     /\ (lerr = "AcceptError" =>
           /\ lerr' = lerr
           /\ \A c \in Conns : conn[c] = "none" => conn'[c] = "none"
           /\ Len(tasks') = Len(tasks))]_vars

\* accept failed after a connection had been accepted, and the process exited.
C8_Witness ==
  /\ lerr = "AcceptError"
  /\ lpc = "exited"
  /\ \E c \in Conns : conn[c] /= "none"

\* C9: after a bind failure main has panicked, the accept loop was never
\* entered: no connection is accepted and no task exists.
C9_BindFatal ==
  lerr = "BindError" =>
    /\ lpc \in {"panicked", "exited"}
    /\ \A c \in Conns : conn[c] = "none"
    /\ stream = 0
    /\ tasks = <<>>

\* bind failed and the process exited.
C9_Witness == lerr = "BindError" /\ lpc = "exited"

\* C10: a handler whose write failed, or whose flush returned, eventually has
\* its connection closed; a handler closes its connection only after write
\* returned and after flush returned or was skipped by the panic; and nothing
\* more is written, and no write or flush is called, on a closed connection.
C10_Terminal ==
  /\ \A i \in Conns :
       [](i \in Tasks /\ (tasks[i].wret = -2 \/ tasks[i].fret /= "none")
            => <>(conn[i] = "closed"))   \* task i owns connection i
  /\ [](\A i \in Tasks :
          /\ (tasks[i].st = "Closed" => conn[tasks[i].stream] = "closed")
          /\ (conn[tasks[i].stream] = "closed" /\ tasks[i].st /= "Aborted"
                => /\ tasks[i].st = "Closed"
                   /\ tasks[i].wret /= -1
                   /\ (tasks[i].wret = -2 \/ tasks[i].fret /= "none")))
  /\ [][\A i \in Tasks :
          conn[tasks[i].stream] = "closed"
            => /\ wire'[tasks[i].stream] = wire[tasks[i].stream]
               /\ tasks'[i].wcalls = tasks[i].wcalls
               /\ tasks'[i].fcalls = tasks[i].fcalls
               /\ conn'[tasks[i].stream] = "closed"]_vars

\* One handler closed its connection after a failed flush, another after a
\* successful one.
C10_Witness ==
  \E i, j \in Tasks :
    /\ tasks[i].fret = "Err" /\ tasks[i].st = "Closed"
    /\ conn[tasks[i].stream] = "closed"
    /\ Succeeded(j) /\ tasks[j].st = "Closed"
    /\ conn[tasks[j].stream] = "closed"

\* C11 as stated: every step of a handler is one of Accepted -> Writing,
\* Writing -> Flushed, Flushed -> Closed, Writing -> Failed, Flushed -> Failed,
\* Failed -> Closed; nothing else, and nothing out of Closed.
StateMachineEdges ==
  { <<"Accepted", "Writing">>, <<"Writing", "Flushed">>, <<"Flushed", "Closed">>,
    <<"Writing", "Failed">>, <<"Flushed", "Failed">>, <<"Failed", "Closed">> }

C11_StateMachine ==
  [][/\ \A i \in Tasks :
          \/ tasks'[i].st = tasks[i].st
          \/ <<tasks[i].st, tasks'[i].st>> \in StateMachineEdges
     /\ \A i \in 1..Len(tasks') : i \notin Tasks => tasks'[i].st = "Accepted"]_vars

\* C11 amended: a handler starts in Accepted and moves only along the edges
\* of the state machine, except that the process exit after a fatal failure
\* in main aborts every handler that is not yet Closed, from whatever state
\* it is in; Closed and Aborted have no outgoing transition.
C11_StateMachineOrExit ==
  [][/\ \A i \in Tasks :
          \/ tasks'[i].st = tasks[i].st
          \/ <<tasks[i].st, tasks'[i].st>> \in StateMachineEdges
          \/ /\ tasks'[i].st = "Aborted"
             /\ tasks[i].st \in {"Accepted", "Writing", "Flushed", "Failed"}
             /\ lpc = "panicked" /\ lpc' = "exited"
     /\ \A i \in 1..Len(tasks') : i \notin Tasks => tasks'[i].st = "Accepted"]_vars

\* One handler went the whole success path, another went through Failed, and
\* the process is still running.
C11_Witness ==
  /\ Alive
  /\ \E i, j \in Tasks :
       /\ Succeeded(i) /\ tasks[i].st = "Closed"
       /\ Panicked(j) /\ tasks[j].st = "Closed"

\* The one success response, as the wire protocol gives it (with the
\* Content-Length of the 17-byte body).
SuccessResponse ==
  StatusLine \o CRLF \o ContentTypeHeader \o CRLF
  \o ContentLengthName \o <<49, 55>> \o CRLF \o CRLF \o BalanceLiteral

IsPrefix(p, w) == Len(p) <= Len(w) /\ p = SubSeq(w, 1, Len(p))

\* C12: the bytes transmitted so far on any connection are a prefix (empty,
\* proper or complete) of the one success response.
C12_PrefixOnly == \A c \in Conns : IsPrefix(wire[c], SuccessResponse)

\* One failed handler left an absent response, another a truncated one.
C12_Witness ==
  \E i, j \in Tasks :
    /\ tasks[i].wret = -2 /\ tasks[i].st = "Closed" /\ wire[tasks[i].stream] = <<>>
    /\ tasks[j].fret = "Err" /\ tasks[j].st = "Closed"
    /\ wire[tasks[j].stream] /= <<>>
    /\ Len(wire[tasks[j].stream]) < Len(SuccessResponse)

\* C13: no order is imposed across connections: whenever two handlers are
\* both about to finish, either may finish first, and every live handler's
\* next step is possible whatever the other handlers' states; a step of one
\* handler never changes another handler's record or connection.
C13_NoOrdering ==
  /\ [](\A i \in Tasks :
          /\ (Alive /\ tasks[i].st = "Accepted" => ENABLED HandlerStart(i))
          /\ (Alive /\ tasks[i].st = "Writing"
                => /\ ENABLED WriteOk(i, Len(tasks[i].response))
                   /\ ENABLED WriteErr(i))
          /\ (Alive /\ tasks[i].st = "Flushed"
                => ENABLED FlushOk(i) /\ ENABLED FlushErr(i))
          /\ (Alive /\ tasks[i].st = "Failed" => ENABLED Unwind(i)))
  /\ [][\A i \in Tasks :
          (tasks'[i] /= tasks[i] /\ lpc' = lpc)
            => /\ \A j \in Tasks \ {i} : tasks'[j] = tasks[j]
               /\ \A c \in Conns \ {tasks[i].stream} :
                    conn'[c] = conn[c] /\ wire'[c] = wire[c]]_vars

\* The connection accepted second was served to the end while the handler of
\* the first is still in flight.
C13_Witness ==
  /\ Alive
  /\ Len(tasks) >= 2
  /\ tasks[1].st \in {"Accepted", "Writing", "Flushed"}
  /\ Succeeded(2) /\ tasks[2].st = "Closed"

\* C14: flush is called only after write returned Ok; write is called at most
\* once by a task and exactly once by a task that has started, also after a
\* short write; flush is called at most once; after a write error flush is
\* never called.
C14_WriteThenFlush ==
  \A i \in Tasks :
    /\ tasks[i].wcalls <= 1 /\ tasks[i].fcalls <= 1
    /\ (tasks[i].st \in {"Writing", "Flushed", "Failed", "Closed"}
          => tasks[i].wcalls = 1)
    /\ (tasks[i].fcalls > 0 => tasks[i].wret >= 0)
    /\ (tasks[i].fret /= "none" => tasks[i].fcalls = 1)
    /\ (tasks[i].wret = -2 => tasks[i].fcalls = 0 /\ tasks[i].fret = "none")

\* One handler ended after a write error, another ended after a short write
\* without writing again.
C14_Witness ==
  \E i, j \in Tasks :
    /\ tasks[i].wret = -2 /\ tasks[i].st = "Closed"
    /\ tasks[j].st = "Closed" /\ tasks[j].wret >= 0
    /\ tasks[j].wret < Len(tasks[j].response)
    /\ tasks[j].wcalls = 1

\* C15: after main's panic the process can exit whatever the handlers are
\* doing; once it has exited no handler is left in flight, every accepted
\* connection is closed and nothing changes any more; a handler's failure
\* never moves main.
C15_OneWayIsolation ==
  /\ [](lpc = "panicked" => ENABLED Exit)
  /\ [](lpc = "exited" =>
          /\ \A i \in Tasks : tasks[i].st \in {"Closed", "Aborted"}
          /\ \A c \in Conns : conn[c] /= "open")
  /\ [][/\ (lpc = "exited" => UNCHANGED vars)
        /\ \A i \in Tasks :
             (tasks[i].st /= "Failed" /\ tasks'[i].st = "Failed")
               => lpc' = lpc /\ lerr' = lerr]_vars

\* accept failed; the process exited with a handler aborted whose connection
\* is closed without the full response on it, while another handler had
\* failed earlier without stopping main.
C15_Witness ==
  /\ lerr = "AcceptError" /\ lpc = "exited"
  /\ \E i, j \in Tasks :
       /\ tasks[i].st = "Aborted"
       /\ conn[tasks[i].stream] = "closed"
       /\ wire[tasks[i].stream] /= Format(contents)
       /\ Panicked(j) /\ tasks[j].st = "Closed"

====
